---- MODULE Spec2Model ----
(***************************************************************************)
(* Student performance engine (src/core/s_engine.py, src/main.py,          *)
(* src/core/student_perf/student_engine.py).                               *)
(*                                                                         *)
(* Floating point numbers are modelled as records: a finite number is      *)
(* [k |-> "num", v |-> n] with n counted in units of 1/Scale, and the IEEE *)
(* special values are NaN, PosInf and NegInf.  Arithmetic rounds to the    *)
(* nearest unit, the way float64 rounds to the nearest representable       *)
(* value.  A raised Python exception is the record Raise.                  *)
(***************************************************************************)
EXTENDS Integers, Sequences, FiniteSets, TLC

VARIABLES
    pc,              \* position of the caller
    testScores,      \* the obtained marks of the request
    maxScores,       \* the maximum marks of the request
    engines,         \* the three sub-engines of ComputeStudentPerformance
    normalizeCalls,  \* number of _normalizeAllScores runs so far
    error,           \* the exception that ended the request, or "none"
    failedAt,        \* index of the pair that raised, or 0
    outputs,         \* the three mappings compute() merges
    report,          \* the mapping compute() returned
    analyzerEntropy, \* result of main.py's DistributionAnalyzer entropy
    scipySkew,       \* what skew gave for a sample without variance, if asked
    preEngines,      \* the three sub-engines of student_engine.py's wrapper
    preReport,       \* the mapping student_engine.py's compute() returned
    argMax,          \* arguments and results of a direct _normalizeScore call
    argObtained,
    scoreResult,
    analyzerResult

vars == <<pc, testScores, maxScores, engines, normalizeCalls, error, failedAt,
          outputs, report, analyzerEntropy, scipySkew, preEngines, preReport,
          argMax, argObtained, scoreResult, analyzerResult>>

pipelineVars == <<testScores, maxScores, engines, normalizeCalls, error,
                  failedAt, outputs, report, analyzerEntropy, scipySkew,
                  preEngines, preReport>>

preVars == <<preEngines, preReport>>

scoreVars == <<argMax, argObtained, scoreResult, analyzerResult>>

(* ---------------------------- bounds ----------------------------------- *)

\* longest list of scores of one request
MaxLen == 3

\* largest magnitude of a raw mark handed to _normalizeScore on its own
MaxArg == 6

\* fixed point resolution of the float model: 1/Scale
Scale == 10 * 10

\* fixed point resolution inside log2: 1/LogUnit
LogUnit == 128 * 128

\* number of fractional bits log2 produces
LogBits == 4 + 4

(* ---------------------------- floats ----------------------------------- *)

NaN == [k |-> "nan", v |-> 0]

PosInf == [k |-> "inf", v |-> 1]

NegInf == [k |-> "inf", v |-> -1]

Num(n) == [k |-> "num", v |-> n]

\* a raw mark given as a whole number
Mark(n) == Num(n * Scale)

IsNaN(x) == x.k = "nan"

IsNum(x) == x.k = "num"

Abs(n) == IF n < 0 THEN -n ELSE n

Sign(n) == IF n < 0 THEN -1 ELSE IF n > 0 THEN 1 ELSE 0

\* a / b rounded to the nearest integer, b # 0
RDiv(a, b) == Sign(a) * Sign(b) * ((2 * Abs(a) + Abs(b)) \div (2 * Abs(b)))

\* x != y of IEEE floats: true as soon as one side is NaN
FNe(x, y) == IsNaN(x) \/ IsNaN(y) \/ x # y

\* x == y of IEEE floats
FEq(x, y) == ~FNe(x, y)

\* x <= y of IEEE floats: false as soon as one side is NaN
FLe(x, y) ==
    IF IsNaN(x) \/ IsNaN(y) THEN FALSE
    ELSE IF IsNum(x) /\ IsNum(y) THEN x.v <= y.v
    ELSE IF IsNum(x) THEN y.v = 1
    ELSE IF IsNum(y) THEN x.v = -1
    ELSE x.v <= y.v

\* x / y of numpy float64 scalars: division by zero gives nan or +-inf
\* (with a RuntimeWarning), it does not raise
FDiv(x, y) ==
    IF IsNaN(x) \/ IsNaN(y) THEN NaN
    ELSE IF IsNum(x) /\ IsNum(y) THEN
        IF y.v # 0 THEN Num(RDiv(x.v * Scale, y.v))
        ELSE IF x.v = 0 THEN NaN
        ELSE IF x.v > 0 THEN PosInf ELSE NegInf
    ELSE IF IsNum(x) THEN Num(0)
    ELSE IF IsNum(y) THEN
        IF y.v < 0 THEN [k |-> "inf", v |-> -x.v] ELSE x
    ELSE NaN

\* x * y of floats
FMul(x, y) ==
    IF IsNaN(x) \/ IsNaN(y) THEN NaN
    ELSE IF IsNum(x) /\ IsNum(y) THEN Num(RDiv(x.v * y.v, Scale))
    ELSE IF (IsNum(x) /\ x.v = 0) \/ (IsNum(y) /\ y.v = 0) THEN NaN
    ELSE [k |-> "inf", v |-> Sign(x.v) * Sign(y.v)]

\* a raised exception, and a returned value
Raise(kind) == [raised |-> TRUE, error |-> kind, val |-> NaN]

Return(x) == [raised |-> FALSE, error |-> "none", val |-> x]

(* --------------------------- Normalizer -------------------------------- *)

\* variant: the maximum is validated before the obtained mark is looked at
normalizeScore_maxFirst(maxScore, obtainedScore) ==
    IF ~(FNe(maxScore, Num(0)) /\ FEq(maxScore, maxScore)) THEN Raise("ValueError")
    ELSE IF FNe(obtainedScore, obtainedScore) THEN Return(Num(0))
    ELSE IF FLe(obtainedScore, maxScore)
         THEN Return(FMul(FDiv(obtainedScore, maxScore), Mark(10)))
         ELSE Raise("ValueError")

normalizeScore(maxScore, obtainedScore) ==
    IF FNe(obtainedScore, obtainedScore) THEN Return(Num(0))
    ELSE IF (FNe(maxScore, Num(0)) /\ FEq(maxScore, maxScore))
             /\ FLe(obtainedScore, maxScore)
         THEN Return(FMul(FDiv(obtainedScore, maxScore), Mark(10)))
         ELSE Raise("ValueError")

\* main.py carries its own copy of the function
Analyzer_normalizeScore(maxScore, obtainedScore) ==
    IF FNe(obtainedScore, obtainedScore) THEN Return(Num(0))
    ELSE IF (FNe(maxScore, Num(0)) /\ FEq(maxScore, maxScore))
             /\ FLe(obtainedScore, maxScore)
         THEN Return(FMul(FDiv(obtainedScore, maxScore), Mark(10)))
         ELSE Raise("ValueError")

Min2(a, b) == IF a <= b THEN a ELSE b

\* the loop of _normalizeAllScores from pair i on, acc the list built so far;
\* zip stops at the shorter list.  The result is the list of finite values
\* (units of 1/Scale), or the exception and the index of the pair raising it.
RECURSIVE normalizeLoop(_, _, _, _)
normalizeLoop(scores, maxima, i, acc) ==
    IF i > Min2(Len(scores), Len(maxima))
    THEN [raised |-> FALSE, error |-> "none", at |-> 0, vec |-> acc]
    ELSE LET r == normalizeScore(maxima[i], scores[i])
         IN  IF r.raised
             THEN [raised |-> TRUE, error |-> r.error, at |-> i, vec |-> <<>>]
             ELSE normalizeLoop(scores, maxima, i + 1, Append(acc, r.val.v))

\* variant: an invalid pair is dropped and the loop goes on
RECURSIVE normalizeLoop_skipInvalid(_, _, _, _)
normalizeLoop_skipInvalid(scores, maxima, i, acc) ==
    IF i > Min2(Len(scores), Len(maxima))
    THEN [raised |-> FALSE, error |-> "none", at |-> 0, vec |-> acc]
    ELSE LET r == normalizeScore(maxima[i], scores[i])
         IN  normalizeLoop_skipInvalid(scores, maxima, i + 1,
                 IF r.raised THEN acc ELSE Append(acc, r.val.v))

normalizeAllScores_skipInvalid(scores, maxima) ==
    normalizeLoop_skipInvalid(scores, maxima, 1, <<>>)

normalizeAllScores(scores, maxima) == normalizeLoop(scores, maxima, 1, <<>>)

\* main.py: the same loop over its own _normalizeScore
RECURSIVE Analyzer_normalizeLoop(_, _, _, _)
Analyzer_normalizeLoop(scores, maxima, i, acc) ==
    IF i > Min2(Len(scores), Len(maxima))
    THEN [raised |-> FALSE, error |-> "none", at |-> 0, vec |-> acc]
    ELSE LET r == Analyzer_normalizeScore(maxima[i], scores[i])
         IN  IF r.raised
             THEN [raised |-> TRUE, error |-> r.error, at |-> i, vec |-> <<>>]
             ELSE Analyzer_normalizeLoop(scores, maxima, i + 1,
                                         Append(acc, r.val.v))

Analyzer_normalizeAllScores(scores, maxima) ==
    Analyzer_normalizeLoop(scores, maxima, 1, <<>>)

(* ------------------------ numpy primitives ----------------------------- *)
\* The vectors below are sequences of finite values in units of 1/Scale.

RECURSIVE np_sum(_)
np_sum(v) == IF v = <<>> THEN 0 ELSE v[1] + np_sum(Tail(v))

RECURSIVE np_max(_)
np_max(v) ==
    IF Len(v) = 1 THEN v[1]
    ELSE LET m == np_max(Tail(v)) IN IF v[1] >= m THEN v[1] ELSE m

RECURSIVE np_min(_)
np_min(v) ==
    IF Len(v) = 1 THEN v[1]
    ELSE LET m == np_min(Tail(v)) IN IF v[1] <= m THEN v[1] ELSE m

np_mean(v) == RDiv(np_sum(v), Len(v))

\* floor of the square root, by Newton's iteration from above
RECURSIVE SqrtIter(_, _)
SqrtIter(n, x) ==
    LET y == (x + n \div x) \div 2
    IN  IF y >= x THEN x ELSE SqrtIter(n, y)

ISqrt(n) == IF n = 0 THEN 0 ELSE SqrtIter(n, n)

\* square root of a value in units of 1/Scale, rounded to the nearest unit
np_sqrt(x) ==
    LET r == ISqrt(x * Scale)
    IN  IF (r + 1) * (r + 1) - x * Scale < x * Scale - r * r THEN r + 1 ELSE r

deviations(v) == LET m == np_mean(v) IN [i \in 1..Len(v) |-> v[i] - m]

\* np.var(v, ddof=0): mean of the squared deviations from the mean
np_var(v) ==
    LET d == deviations(v)
    IN  np_mean([i \in 1..Len(v) |-> RDiv(d[i] * d[i], Scale)])

np_std(v) == np_sqrt(np_var(v))

\* insertion of x into a sorted sequence
RECURSIVE Insert(_, _)
Insert(x, s) ==
    IF s = <<>> THEN <<x>>
    ELSE IF x <= s[1] THEN <<x>> \o s
    ELSE <<s[1]>> \o Insert(x, Tail(s))

RECURSIVE Sorted(_)
Sorted(v) == IF v = <<>> THEN <<>> ELSE Insert(v[1], Sorted(Tail(v)))

\* np.percentile(v, q): linear interpolation between the order statistics
np_percentile(v, q) ==
    LET s    == Sorted(v)
        pos  == (Len(v) - 1) * q
        lo   == pos \div 100
        frac == pos % 100
    IN  IF frac = 0 THEN s[lo + 1]
        ELSE s[lo + 1] + RDiv(frac * (s[lo + 2] - s[lo + 1]), 100)

\* the fractional bits of log2(y / LogUnit) for LogUnit <= y < 2 * LogUnit,
\* by repeated squaring; the result counts units of 1 / 2^bits
RECURSIVE Log2Frac(_, _)
Log2Frac(y, bits) ==
    IF bits = 0 THEN 0
    ELSE LET y2 == (y * y) \div LogUnit
         IN  IF y2 >= 2 * LogUnit
             THEN 2 ^ (bits - 1) + Log2Frac(y2 \div 2, bits - 1)
             ELSE Log2Frac(y2, bits - 1)

\* log2(y / LogUnit) in units of 1 / 2^LogBits, y > 0
RECURSIVE Log2Raw(_)
Log2Raw(y) ==
    IF y >= 2 * LogUnit THEN 2 ^ LogBits + Log2Raw(y \div 2)
    ELSE IF y < LogUnit THEN Log2Raw(2 * y) - 2 ^ LogBits
    ELSE Log2Frac(y, LogBits)

\* np.log2 of a strictly positive value in units of 1/Scale
np_log2(x) == RDiv(Log2Raw((x * LogUnit) \div Scale) * Scale, 2 ^ LogBits)

(* ------------------------------ engines -------------------------------- *)

EngineNames == {"consistency", "statistics", "distribution"}

\* an engine object before its constructor has run
NoEngine ==
    [built |-> FALSE, normalizedTestScores |-> <<>>, vectorId |-> 0,
     maximumScore |-> 0, minimumScore |-> 0]

\* StudentPerformanceComputeEngine.__init__: the result is the engine, or
\* the exception of _normalizeAllScores, or the one np.max raises on an
\* empty array.  id names the array object the constructor allocates.
StudentPerformanceComputeEngine(scores, maxima, id) ==
    LET n == normalizeAllScores(scores, maxima)
    IN  IF n.raised
        THEN [raised |-> TRUE, error |-> n.error, at |-> n.at, engine |-> NoEngine]
        ELSE IF n.vec = <<>>
        THEN [raised |-> TRUE, error |-> "ValueError: zero-size array",
              at |-> 0, engine |-> NoEngine]
        ELSE [raised |-> FALSE, error |-> "none", at |-> 0,
              engine |-> [built |-> TRUE, normalizedTestScores |-> n.vec,
                          vectorId |-> id,
                          maximumScore |-> np_max(n.vec),
                          minimumScore |-> np_min(n.vec)]]

calculateMean(self) == np_mean(self.normalizedTestScores)

calculateStandardDeviation(self) == np_std(self.normalizedTestScores)

(* ConsistencyComputeEngine *)

\* 0.3 and 0.7, counted in tenths
ALPHA == 3

BETA == 7

calculateVariance(self) == np_var(self.normalizedTestScores)

\* variant: the deviations are averaged with their signs
calculateMeanAbsoluteDeviation_signed(self) ==
    LET sampleDataMean == calculateMean(self)
        v == self.normalizedTestScores
    IN  np_mean([i \in 1..Len(v) |-> v[i] - sampleDataMean])

calculateMeanAbsoluteDeviation(self) ==
    LET sampleDataMean == calculateMean(self)
        v == self.normalizedTestScores
        absoluteDeviations == [i \in 1..Len(v) |-> Abs(v[i] - sampleDataMean)]
    IN  np_mean(absoluteDeviations)

\* variant: the second entry is stored under the key "mean"
returnConsistencyScores_meanKey(self) ==
    LET variance == calculateVariance(self)
        standardDeviation == calculateStandardDeviation(self)
        consistency ==
            FDiv(Mark(1), Num(Scale + RDiv(ALPHA * variance, 10)
                                    + RDiv(BETA * standardDeviation, 10)))
    IN  [k \in {"consistency", "mean"} |->
            IF k = "consistency" THEN consistency
            ELSE Num(calculateMeanAbsoluteDeviation(self))]

\* variant: the denominator lacks its leading 1
returnConsistencyScores_noOne(self) ==
    LET variance == calculateVariance(self)
        standardDeviation == calculateStandardDeviation(self)
        consistency ==
            FDiv(Mark(1), Num(RDiv(ALPHA * variance, 10)
                              + RDiv(BETA * standardDeviation, 10)))
    IN  [k \in {"consistency", "mad"} |->
            IF k = "consistency" THEN consistency
            ELSE Num(calculateMeanAbsoluteDeviation(self))]

returnConsistencyScores(self) ==
    LET variance == calculateVariance(self)
        standardDeviation == calculateStandardDeviation(self)
        consistency ==
            FDiv(Mark(1), Num(Scale + RDiv(ALPHA * variance, 10)
                                    + RDiv(BETA * standardDeviation, 10)))
    IN  [k \in {"consistency", "mad"} |->
            IF k = "consistency" THEN consistency
            ELSE Num(calculateMeanAbsoluteDeviation(self))]

(* StatisticsComputeEngine *)

\* what scipy.stats.skew returns for a sample without variance: nan in
\* current releases, 0.0 in older ones
SkewDegenerateOutcomes == {NaN, Num(0)}

\* scipy.stats.skew(v): the biased third standardized moment m3 / m2^1.5
checkSkewness(self, degenerate) ==
    LET v  == self.normalizedTestScores
        d  == deviations(v)
        m2 == np_mean([i \in 1..Len(v) |-> RDiv(d[i] * d[i], Scale)])
        m3 == np_mean([i \in 1..Len(v) |->
                          RDiv(RDiv(d[i] * d[i], Scale) * d[i], Scale)])
    IN  IF m2 = 0 THEN degenerate
        ELSE FDiv(Num(m3), Num(RDiv(m2 * np_sqrt(m2), Scale)))

calculatePercentiles(self) ==
    [k \in {"q1", "median", "q3"} |->
        IF k = "q1" THEN Num(np_percentile(self.normalizedTestScores, 25))
        ELSE IF k = "median" THEN Num(np_percentile(self.normalizedTestScores, 50))
        ELSE Num(np_percentile(self.normalizedTestScores, 75))]

\* a | b of two dicts: the right operand wins on a shared key
DictMerge(a, b) ==
    [k \in (DOMAIN a) \cup (DOMAIN b) |-> IF k \in DOMAIN b THEN b[k] ELSE a[k]]

returnStatistics(self, degenerate) ==
    LET coreStats ==
            [k \in {"mean", "skewness", "min", "max"} |->
                IF k = "mean" THEN Num(calculateMean(self))
                ELSE IF k = "skewness" THEN checkSkewness(self, degenerate)
                ELSE IF k = "min" THEN Num(self.minimumScore)
                ELSE Num(self.maximumScore)]
        percentileStats == calculatePercentiles(self)
    IN  DictMerge(coreStats, percentileStats)

(* DistributionComputeEngine *)

\* sampleData[sampleData > 0]
RECURSIVE FilterPositive(_)
FilterPositive(v) ==
    IF v = <<>> THEN <<>>
    ELSE IF v[1] > 0 THEN <<v[1]>> \o FilterPositive(Tail(v))
    ELSE FilterPositive(Tail(v))

calculateShannonEntropy(self) ==
    LET sampleData    == self.normalizedTestScores
        filteredData  == FilterPositive(sampleData)
        total         == np_sum(filteredData)
        probabilities == [i \in 1..Len(filteredData) |->
                             RDiv(filteredData[i] * Scale, total)]
        h == -np_sum([i \in 1..Len(filteredData) |->
                 RDiv(probabilities[i] * np_log2(probabilities[i]), Scale)])
    IN  Num(h)

calculateRange(self) == self.maximumScore - self.minimumScore

\* variant: the quotient of two Python floats, which raises on a zero divisor
calculateCoefficientOfVariation_raises(self) ==
    IF calculateMean(self) = 0 THEN Raise("ZeroDivisionError")
    ELSE Return(FDiv(Num(calculateStandardDeviation(self)),
                     Num(calculateMean(self))))

\* variant: mean over standard deviation
calculateCoefficientOfVariation_inverted(self) ==
    Return(FDiv(Num(calculateMean(self)), Num(calculateStandardDeviation(self))))

\* the quotient of two numpy float64 scalars
calculateCoefficientOfVariation(self) ==
    Return(FDiv(Num(calculateStandardDeviation(self)), Num(calculateMean(self))))

\* the mapping, or the exception one of its entries raised
returnDistributionScores(self) ==
    LET cv == calculateCoefficientOfVariation(self)
    IN  IF cv.raised THEN [raised |-> TRUE, error |-> cv.error, val |-> <<>>]
        ELSE [raised |-> FALSE, error |-> "none",
              val |-> [k \in {"entropy", "range", "cv", "std"} |->
                          IF k = "entropy" THEN calculateShannonEntropy(self)
                          ELSE IF k = "range" THEN Num(calculateRange(self))
                          ELSE IF k = "cv" THEN cv.val
                          ELSE Num(calculateStandardDeviation(self))]]

(* main.py, DistributionAnalyzer: the values themselves are used as the   *)
(* probabilities                                                           *)
Analyzer_calculateShannonEntropy(v) ==
    LET probabilities == FilterPositive(v)
        h == -np_sum([i \in 1..Len(probabilities) |->
                 RDiv(probabilities[i] * np_log2(probabilities[i]), Scale)])
    IN  Num(h)

(* -------------- student_perf/student_engine.py: the engines ------------ *)
(* The engines of this file take the normalized vector as it is handed in *)
(* and keep it without converting it: kind tells whether it is the list    *)
(* _normalizeAllScores returns or the numpy array made from it.            *)

VectorKinds == {"list", "ndarray"}

Pre_StudentPerformanceComputeEngine(normalizedTestScores, kind) ==
    IF normalizedTestScores = <<>>
    THEN [raised |-> TRUE, error |-> "ValueError: zero-size array",
          engine |-> [built |-> FALSE, normalizedTestScores |-> <<>>,
                      kind |-> kind, maximumScore |-> 0, minimumScore |-> 0]]
    ELSE [raised |-> FALSE, error |-> "none",
          engine |-> [built |-> TRUE,
                      normalizedTestScores |-> normalizedTestScores,
                      kind |-> kind,
                      maximumScore |-> np_max(normalizedTestScores),
                      minimumScore |-> np_min(normalizedTestScores)]]

Pre_calculateMean(self) == np_mean(self.normalizedTestScores)

Pre_calculateStandardDeviation(self) == np_std(self.normalizedTestScores)

Pre_calculateVariance(self) == np_var(self.normalizedTestScores)

\* list - np.float64 is evaluated by numpy and gives an array
Pre_calculateMeanAbsoluteDeviation(self) ==
    LET sampleDataMean == Pre_calculateMean(self)
        v == self.normalizedTestScores
        absoluteDeviations == [i \in 1..Len(v) |-> Abs(v[i] - sampleDataMean)]
    IN  np_mean(absoluteDeviations)

Pre_returnConsistencyScores(self) ==
    LET variance == Pre_calculateVariance(self)
        standardDeviation == Pre_calculateStandardDeviation(self)
        consistency ==
            FDiv(Mark(1), Num(Scale + RDiv(ALPHA * variance, 10)
                                    + RDiv(BETA * standardDeviation, 10)))
    IN  [k \in {"consistency", "mad"} |->
            IF k = "consistency" THEN consistency
            ELSE Num(Pre_calculateMeanAbsoluteDeviation(self))]

Pre_checkSkewness(self, degenerate) ==
    LET v  == self.normalizedTestScores
        d  == deviations(v)
        m2 == np_mean([i \in 1..Len(v) |-> RDiv(d[i] * d[i], Scale)])
        m3 == np_mean([i \in 1..Len(v) |->
                          RDiv(RDiv(d[i] * d[i], Scale) * d[i], Scale)])
    IN  IF m2 = 0 THEN degenerate
        ELSE FDiv(Num(m3), Num(RDiv(m2 * np_sqrt(m2), Scale)))

Pre_calculatePercentiles(self) ==
    [k \in {"q1", "median", "q3"} |->
        IF k = "q1" THEN Num(np_percentile(self.normalizedTestScores, 25))
        ELSE IF k = "median" THEN Num(np_percentile(self.normalizedTestScores, 50))
        ELSE Num(np_percentile(self.normalizedTestScores, 75))]

Pre_returnStatistics(self, degenerate) ==
    LET coreStats ==
            [k \in {"mean", "skewness", "min", "max"} |->
                IF k = "mean" THEN Num(Pre_calculateMean(self))
                ELSE IF k = "skewness" THEN Pre_checkSkewness(self, degenerate)
                ELSE IF k = "min" THEN Num(self.minimumScore)
                ELSE Num(self.maximumScore)]
        percentiles == Pre_calculatePercentiles(self)
    IN  DictMerge(coreStats, percentiles)

\* sampleData > 0 is an elementwise comparison on an array; on a list
\* Python raises TypeError ('>' not supported between 'list' and 'int')
Pre_calculateShannonEntropy(self) ==
    IF self.kind = "list" THEN Raise("TypeError")
    ELSE LET sampleData    == self.normalizedTestScores
             filteredData  == FilterPositive(sampleData)
             total         == np_sum(filteredData)
             probabilities == [i \in 1..Len(filteredData) |->
                                  RDiv(filteredData[i] * Scale, total)]
             h == -np_sum([i \in 1..Len(filteredData) |->
                      RDiv(probabilities[i] * np_log2(probabilities[i]), Scale)])
         IN  Return(Num(h))

Pre_calculateRange(self) == self.maximumScore - self.minimumScore

Pre_calculateCoefficientOfVariation(self) ==
    FDiv(Num(Pre_calculateStandardDeviation(self)), Num(Pre_calculateMean(self)))

\* the mapping, or the exception its first entry raised
Pre_returnDistributionScores(self) ==
    LET entropy == Pre_calculateShannonEntropy(self)
    IN  IF entropy.raised
        THEN [raised |-> TRUE, error |-> entropy.error, val |-> <<>>]
        ELSE [raised |-> FALSE, error |-> "none",
              val |-> [k \in {"entropy", "range", "cv", "std"} |->
                          IF k = "entropy" THEN entropy.val
                          ELSE IF k = "range" THEN Num(Pre_calculateRange(self))
                          ELSE IF k = "cv"
                               THEN Pre_calculateCoefficientOfVariation(self)
                          ELSE Num(Pre_calculateStandardDeviation(self))]]

(* ------------------------------ inputs --------------------------------- *)

\* the marks a request is made of: not-a-number (normalized to zero),
\* negative, positive
ObtainedVals == {NaN, Mark(-1), Mark(1), Mark(2)}

MaxVals == {NaN, Mark(-1), Mark(0), Mark(1), Mark(2)}

\* the arguments of a direct call of _normalizeScore
ArgVals == {NaN} \cup {Mark(n) : n \in -MaxArg..MaxArg}

NoMapping == [k \in {} |-> NaN]

\* skew has not been asked yet
NoSkew == [k \in {"k", "v"} |-> IF k = "k" THEN "unset" ELSE 0]

NoPreEngine == [built |-> FALSE, normalizedTestScores |-> <<>>, kind |-> "none",
                maximumScore |-> 0, minimumScore |-> 0]

(* ------------------- ComputeStudentPerformance ------------------------- *)

Init ==
    /\ pc = "start"
    /\ \E n \in 0..MaxLen :
          /\ testScores \in [1..n -> ObtainedVals]
          /\ maxScores \in [1..n -> MaxVals]
    /\ engines = [e \in EngineNames |-> NoEngine]
    /\ normalizeCalls = 0
    /\ error = "none"
    /\ failedAt = 0
    /\ outputs = [e \in EngineNames |-> NoMapping]
    /\ report = NoMapping
    /\ analyzerEntropy = NaN
    /\ scipySkew = NoSkew
    /\ preEngines = [e \in EngineNames |-> NoPreEngine]
    /\ preReport = NoMapping
    /\ argMax = NaN
    /\ argObtained = NaN
    /\ scoreResult = Return(NaN)
    /\ analyzerResult = Return(NaN)

\* one sub-engine constructor call of ComputeStudentPerformance.__init__
Construct(name, from, to) ==
    /\ pc = from
    /\ LET r == StudentPerformanceComputeEngine(testScores, maxScores,
                                                normalizeCalls + 1)
       IN  /\ normalizeCalls' = normalizeCalls + 1
           /\ IF r.raised
              THEN /\ pc' = "raised"
                   /\ error' = r.error
                   /\ failedAt' = r.at
                   /\ UNCHANGED engines
              ELSE /\ pc' = to
                   /\ engines' = [engines EXCEPT ![name] = r.engine]
                   /\ UNCHANGED <<error, failedAt>>
    /\ UNCHANGED <<testScores, maxScores, outputs, report, analyzerEntropy,
                   scipySkew>>
    /\ UNCHANGED preVars
    /\ UNCHANGED scoreVars

ConstructConsistency == Construct("consistency", "start", "consistencyBuilt")

ConstructStatistics == Construct("statistics", "consistencyBuilt", "statisticsBuilt")

ConstructDistribution == Construct("distribution", "statisticsBuilt", "constructed")

\* ComputeStudentPerformance.compute
Compute ==
    /\ pc = "constructed"
    /\ \E degenerate \in SkewDegenerateOutcomes :
          LET consistencyScores ==
                  returnConsistencyScores(engines["consistency"])
              statistics == returnStatistics(engines["statistics"], degenerate)
              distributionScores ==
                  returnDistributionScores(engines["distribution"])
          IN  IF distributionScores.raised
              THEN /\ pc' = "raised"
                   /\ error' = distributionScores.error
                   /\ UNCHANGED <<outputs, report, scipySkew>>
              ELSE /\ pc' = "done"
                   /\ scipySkew' = degenerate
                   /\ outputs' = [e \in EngineNames |->
                                     IF e = "consistency" THEN consistencyScores
                                     ELSE IF e = "statistics" THEN statistics
                                     ELSE distributionScores.val]
                   /\ report' = DictMerge(DictMerge(consistencyScores, statistics),
                                          distributionScores.val)
                   /\ UNCHANGED error
    /\ UNCHANGED <<testScores, maxScores, engines, normalizeCalls, failedAt,
                   analyzerEntropy>>
    /\ UNCHANGED preVars
    /\ UNCHANGED scoreVars

\* main.py: DistributionAnalyzer(studentId, testScores, maxScores) followed
\* by _calculateShannonEntropy()
AnalyzeDistribution ==
    /\ pc = "start"
    /\ LET n == Analyzer_normalizeAllScores(testScores, maxScores)
       IN  /\ normalizeCalls' = normalizeCalls + 1
           /\ IF n.raised \/ n.vec = <<>>
              THEN /\ pc' = "raised"
                   /\ error' = IF n.raised THEN n.error
                               ELSE "ValueError: zero-size array"
                   /\ failedAt' = n.at
                   /\ UNCHANGED analyzerEntropy
              ELSE /\ pc' = "analyzed"
                   /\ analyzerEntropy' = Analyzer_calculateShannonEntropy(n.vec)
                   /\ UNCHANGED <<error, failedAt>>
    /\ UNCHANGED <<testScores, maxScores, engines, outputs, report, scipySkew>>
    /\ UNCHANGED preVars
    /\ UNCHANGED scoreVars

\* student_engine.py: ComputeStudentPerformance(studentId, v) where v is the
\* vector the request was normalized to, handed over as a list or as an array
PreConstruct ==
    /\ pc = "done"
    /\ \E kind \in VectorKinds :
          LET v == engines["consistency"].normalizedTestScores
              r == Pre_StudentPerformanceComputeEngine(v, kind)
          IN  IF r.raised
              THEN /\ pc' = "preRaised"
                   /\ error' = r.error
                   /\ UNCHANGED preEngines
              ELSE /\ pc' = "preConstructed"
                   /\ preEngines' = [e \in EngineNames |-> r.engine]
                   /\ UNCHANGED error
    /\ UNCHANGED <<testScores, maxScores, engines, normalizeCalls, failedAt,
                   outputs, report, analyzerEntropy, scipySkew, preReport>>
    /\ UNCHANGED scoreVars

\* student_engine.py: ComputeStudentPerformance.compute, in the process
\* (and so with the scipy release) that served the raw request
PreCompute ==
    /\ pc = "preConstructed"
    /\ LET consistencyScores ==
               Pre_returnConsistencyScores(preEngines["consistency"])
           statistics ==
               Pre_returnStatistics(preEngines["statistics"], scipySkew)
           distributionScores ==
               Pre_returnDistributionScores(preEngines["distribution"])
       IN  IF distributionScores.raised
           THEN /\ pc' = "preRaised"
                /\ error' = distributionScores.error
                /\ UNCHANGED preReport
           ELSE /\ pc' = "preDone"
                /\ preReport' = DictMerge(DictMerge(consistencyScores, statistics),
                                          distributionScores.val)
                /\ UNCHANGED error
    /\ UNCHANGED <<testScores, maxScores, engines, normalizeCalls, failedAt,
                   outputs, report, analyzerEntropy, scipySkew, preEngines>>
    /\ UNCHANGED scoreVars

Next ==
    \/ ConstructConsistency
    \/ ConstructStatistics
    \/ ConstructDistribution
    \/ Compute
    \/ AnalyzeDistribution
    \/ PreConstruct
    \/ PreCompute

Spec == Init /\ [][Next]_vars

(* --------------------- _normalizeScore on its own ---------------------- *)

InitScore ==
    /\ pc = "idle"
    /\ testScores = <<>>
    /\ maxScores = <<>>
    /\ engines = [e \in EngineNames |-> NoEngine]
    /\ normalizeCalls = 0
    /\ error = "none"
    /\ failedAt = 0
    /\ outputs = [e \in EngineNames |-> NoMapping]
    /\ report = NoMapping
    /\ analyzerEntropy = NaN
    /\ scipySkew = NoSkew
    /\ preEngines = [e \in EngineNames |-> NoPreEngine]
    /\ preReport = NoMapping
    /\ argMax = NaN
    /\ argObtained = NaN
    /\ scoreResult = Return(NaN)
    /\ analyzerResult = Return(NaN)

CallNormalizeScore ==
    /\ pc \in {"idle", "scored"}
    /\ \E m \in ArgVals, o \in ArgVals :
          /\ argMax' = m
          /\ argObtained' = o
          /\ scoreResult' = normalizeScore(m, o)
          /\ analyzerResult' = Analyzer_normalizeScore(m, o)
    /\ pc' = "scored"
    /\ UNCHANGED pipelineVars

NextScore == CallNormalizeScore

SpecScore == InitScore /\ [][NextScore]_vars

(* ----------------------------- properties ------------------------------ *)

\* the pairs rules 1 and 2 of the Normalizer let through
PairAccepted(o, m) == IsNaN(o) \/ (~IsNaN(m) /\ m # Num(0) /\ o.v <= m.v)

PairCount == Min2(Len(testScores), Len(maxScores))

InvalidPairs == {i \in 1..PairCount : ~PairAccepted(testScores[i], maxScores[i])}

AllIdentical(v) == \A i \in 1..Len(v) : v[i] = v[1]

MetricKeys ==
    {"consistency", "mad", "mean", "skewness", "min", "max", "q1", "median",
     "q3", "entropy", "range", "cv", "std"}

\* the vector the consistency engine holds
ConsistencyVector == engines["consistency"].normalizedTestScores

\* C1: _normalizeScore gives 0.0 for a NaN obtained mark whatever the maximum
\* is; otherwise it raises when the maximum is 0 or NaN or the obtained mark
\* exceeds it; otherwise it gives (obtained / maximum) * 10.0.  Both copies
\* of the function (s_engine.py and main.py) follow the rule.
NormalizeScoreRules ==
    pc = "scored" =>
        \A r \in {scoreResult, analyzerResult} :
            IF IsNaN(argObtained) THEN ~r.raised /\ r.val = Num(0)
            ELSE IF argMax = Num(0) \/ IsNaN(argMax) \/ argObtained.v > argMax.v
                 THEN r.raised /\ r.error = "ValueError"
                 ELSE /\ ~r.raised
                      /\ r.val = Num(10 * RDiv(argObtained.v * Scale, argMax.v))

\* a NaN obtained mark against a zero maximum was normalized to 0.0
NormalizeScoreRulesWitness ==
    /\ pc = "scored"
    /\ IsNaN(argObtained)
    /\ argMax = Num(0)
    /\ scoreResult = Return(Num(0))

\* C2: every value of a normalized vector an engine holds lies in [0, 10].
NormalizedInRange ==
    \A e \in EngineNames :
        engines[e].built =>
            \A i \in 1..Len(engines[e].normalizedTestScores) :
                /\ 0 <= engines[e].normalizedTestScores[i]
                /\ engines[e].normalizedTestScores[i] <= 10 * Scale

\* C3: when some pair of the request is invalid, the request ends with the
\* validation error of the first invalid pair, no engine holds a vector and
\* neither a partial mapping nor a report exists.
FailFastAtomic ==
    (InvalidPairs # {} /\ pc \notin {"start", "idle"}) =>
        /\ pc = "raised"
        /\ error = "ValueError"
        /\ failedAt \in InvalidPairs
        /\ \A i \in InvalidPairs : failedAt <= i
        /\ \A e \in EngineNames :
              /\ ~engines[e].built
              /\ engines[e].normalizedTestScores = <<>>
              /\ outputs[e] = NoMapping
        /\ report = NoMapping

\* a request of three pairs failed at its second pair, the third being
\* invalid as well
FailFastAtomicWitness ==
    /\ pc = "raised"
    /\ PairCount = 3
    /\ InvalidPairs = {2, 3}
    /\ failedAt = 2

\* C4: a request that returned its report ran the normalization once and
\* its three engines read the one vector that run produced.
NormalizedExactlyOnce ==
    pc = "done" =>
        /\ normalizeCalls = 1
        /\ \A e \in EngineNames :
              engines[e].vectorId = engines["consistency"].vectorId

\* C5: the key sets of the three engines are pairwise disjoint, the report
\* has the thirteen keys of their union and carries each engine's values.
DisjointKeySets ==
    pc = "done" =>
        /\ \A e, f \in EngineNames :
              e # f => (DOMAIN outputs[e]) \cap (DOMAIN outputs[f]) = {}
        /\ DOMAIN report = UNION {DOMAIN outputs[e] : e \in EngineNames}
        /\ DOMAIN report = MetricKeys
        /\ \A e \in EngineNames :
              \A k \in DOMAIN outputs[e] : report[k] = outputs[e][k]

\* a report was merged from mappings of two, seven and four keys
DisjointKeySetsWitness ==
    /\ pc = "done"
    /\ Cardinality(DOMAIN outputs["consistency"]) = 2
    /\ Cardinality(DOMAIN outputs["statistics"]) = 7
    /\ Cardinality(DOMAIN outputs["distribution"]) = 4
    /\ Cardinality(DOMAIN report) = 13

\* the values that stand for an undefined metric
IsSentinel(x) == x \in {NaN, PosInf, NegInf, Num(0)}

PositiveValues(v) == {v[i] : i \in {j \in 1..Len(v) : v[j] > 0}}

\* C8: the entropy of the report is >= 0, and it is 0 exactly when the
\* strictly positive values of the vector are none or all the same value.
EntropyZeroIffOneDistinct ==
    pc = "done" =>
        /\ report["entropy"].v >= 0
        /\ report["entropy"].v = 0
              <=> Cardinality(PositiveValues(ConsistencyVector)) <= 1

\* the entropy main.py's DistributionAnalyzer computes is >= 0
AnalyzerEntropyNonNegative == pc = "analyzed" => analyzerEntropy.v >= 0

\* what the code ensures: the entropy of the report is >= 0, and it is 0
\* exactly when at most one element of the vector is strictly positive
EntropyZeroIffOneElement ==
    pc = "done" =>
        /\ report["entropy"].v >= 0
        /\ report["entropy"].v = 0
              <=> Len(FilterPositive(ConsistencyVector)) <= 1

\* the exact population variance of v, v in units of 1/Scale
PopulationVariance(v) ==
    LET N  == Len(v)
        s1 == np_sum(v)
        s2 == np_sum([i \in 1..N |-> v[i] * v[i]])
    IN  RDiv(N * s2 - s1 * s1, N * N * Scale)

MeanAbsoluteDeviation(v) ==
    LET N  == Len(v)
        s1 == np_sum(v)
    IN  RDiv(np_sum([i \in 1..N |-> Abs(N * v[i] - s1)]), N * N)

SameReport(a, b) ==
    /\ DOMAIN a = DOMAIN b
    /\ \A k \in DOMAIN a : a[k] = b[k]

\* C11: for every list of raw score pairs the normalization accepts, the
\* pre-normalized variant handed the normalized vector of those pairs
\* returns a report, and that report equals, key for key, the report the
\* raw-input variant returned for the pairs.
VariantsAgree ==
    /\ pc # "preRaised"
    /\ pc = "preDone" => SameReport(preReport, report)

\* what does hold: the two reports are equal whenever the pre-normalized
\* variant returns one, and it fails to exactly when the vector comes as the
\* list its signature asks for
VariantsAgreeOnArrays ==
    /\ pc = "preDone" =>
          /\ SameReport(preReport, report)
          /\ preEngines["distribution"].kind = "ndarray"
    /\ pc = "preRaised" =>
          /\ preEngines["distribution"].kind = "list"
          /\ error = "TypeError"
          /\ preReport = NoMapping

VariantsAgreeOnArraysWitness ==
    /\ pc = "preDone"
    /\ Len(preEngines["distribution"].normalizedTestScores) >= 2
    /\ ~AllIdentical(preEngines["distribution"].normalizedTestScores)
    /\ DOMAIN preReport = MetricKeys

====
